---- MODULE Spec2Model ----
(***************************************************************************)
(* Model of the lexer of treemcgee42/rc: the scanning Cursor               *)
(* (src/lexer/cursor.rs), the older Cursor kept in src/cursor.rs, and the  *)
(* tokenizer built on the former (src/lexer.rs).                           *)
(*                                                                         *)
(* A codepoint is its Unicode scalar value, a string is a sequence of      *)
(* codepoints.  Rust's str::len() counts UTF-8 bytes, so every place the   *)
(* code calls .len() on a &str is modelled by ByteLen, never by Len.       *)
(***************************************************************************)
EXTENDS Integers, Sequences, FiniteSets, TLC

\* ------------------------------------------------------------------------
\* Bounds
\* ------------------------------------------------------------------------

\* longest input, in codepoints, given to tokenize
MaxLen == 3

\* longest input, in codepoints, over the smaller CoreAlphabet
MaxCoreLen == 4

\* longest input, in codepoints, given to a free-standing Cursor
MaxCursorLen == 3

\* Codepoints the tokenizer inputs are drawn from: the three whitespace
\* characters, every punctuation character, the quote, the backslash, NUL,
\* identifier characters of one, two and three bytes, an identifier-continue
\* only character of one and of two bytes, and unclassifiable characters of
\* one, three and four bytes.
Alphabet ==
    { 0, 9, 10, 32, 33, 34, 35, 40, 41, 49, 59, 92, 95, 97, 123, 125,
      183, 233, 8364, 20013, 128512 }

\* A smaller set for longer tokenizer inputs: space, quote, semicolon,
\* backslash, a letter, a two-byte letter, a three-byte unclassifiable.
CoreAlphabet == { 32, 34, 59, 92, 97, 233, 8364 }

\* Codepoints the free-standing Cursor inputs are drawn from.
CursorAlphabet == { 0, 32, 34, 57, 97, 233, 8364 }

\* ------------------------------------------------------------------------
\* Strings
\* ------------------------------------------------------------------------

\* char::len_utf8: the number of bytes of the UTF-8 encoding of c
len_utf8(c) ==
    IF c < 128 THEN 1
    ELSE IF c < 2048 THEN 2
    ELSE IF c < 65536 THEN 3
    ELSE 4

\* str::len(): the number of bytes of the string s
RECURSIVE ByteLen(_)
ByteLen(s) ==
    IF s = <<>> THEN 0 ELSE len_utf8(Head(s)) + ByteLen(Tail(s))

None == [some |-> FALSE]

Some(x) == [some |-> TRUE, val |-> x]

EOF_CHAR == 0

\* ------------------------------------------------------------------------
\* Classification predicates (src/lexer.rs)
\* ------------------------------------------------------------------------

InRange(c, lo, hi) == lo <= c /\ c <= hi

\* unicode_xid's bsearch_range_table: binary search of c in a table of
\* inclusive ranges sorted by codepoint, between places lo and hi of it
RECURSIVE bsearch_range_table(_, _, _, _)
bsearch_range_table(c, r, lo, hi) ==
    IF lo > hi THEN FALSE
    ELSE LET mid == (lo + hi) \div 2 IN
         IF InRange(c, r[mid][1], r[mid][2]) THEN TRUE
         ELSE IF r[mid][2] < c THEN bsearch_range_table(c, r, mid + 1, hi)
         ELSE bsearch_range_table(c, r, lo, mid - 1)

\* unicode_xid's XID_Start table: the ranges of the derived property
\* XID_Start of Unicode 14.0.0, complete
XID_Start_table ==
    <<
    <<65, 90>>, <<97, 122>>, <<170, 170>>, <<181, 181>>, <<186, 186>>,
    <<192, 214>>, <<216, 246>>, <<248, 705>>, <<710, 721>>, <<736, 740>>,
    <<748, 748>>, <<750, 750>>, <<880, 884>>, <<886, 887>>, <<891, 893>>,
    <<895, 895>>, <<902, 902>>, <<904, 906>>, <<908, 908>>, <<910, 929>>,
    <<931, 1013>>, <<1015, 1153>>, <<1162, 1327>>, <<1329, 1366>>,
    <<1369, 1369>>, <<1376, 1416>>, <<1488, 1514>>, <<1519, 1522>>,
    <<1568, 1610>>, <<1646, 1647>>, <<1649, 1747>>, <<1749, 1749>>,
    <<1765, 1766>>, <<1774, 1775>>, <<1786, 1788>>, <<1791, 1791>>,
    <<1808, 1808>>, <<1810, 1839>>, <<1869, 1957>>, <<1969, 1969>>,
    <<1994, 2026>>, <<2036, 2037>>, <<2042, 2042>>, <<2048, 2069>>,
    <<2074, 2074>>, <<2084, 2084>>, <<2088, 2088>>, <<2112, 2136>>,
    <<2144, 2154>>, <<2160, 2183>>, <<2185, 2190>>, <<2208, 2249>>,
    <<2308, 2361>>, <<2365, 2365>>, <<2384, 2384>>, <<2392, 2401>>,
    <<2417, 2432>>, <<2437, 2444>>, <<2447, 2448>>, <<2451, 2472>>,
    <<2474, 2480>>, <<2482, 2482>>, <<2486, 2489>>, <<2493, 2493>>,
    <<2510, 2510>>, <<2524, 2525>>, <<2527, 2529>>, <<2544, 2545>>,
    <<2556, 2556>>, <<2565, 2570>>, <<2575, 2576>>, <<2579, 2600>>,
    <<2602, 2608>>, <<2610, 2611>>, <<2613, 2614>>, <<2616, 2617>>,
    <<2649, 2652>>, <<2654, 2654>>, <<2674, 2676>>, <<2693, 2701>>,
    <<2703, 2705>>, <<2707, 2728>>, <<2730, 2736>>, <<2738, 2739>>,
    <<2741, 2745>>, <<2749, 2749>>, <<2768, 2768>>, <<2784, 2785>>,
    <<2809, 2809>>, <<2821, 2828>>, <<2831, 2832>>, <<2835, 2856>>,
    <<2858, 2864>>, <<2866, 2867>>, <<2869, 2873>>, <<2877, 2877>>,
    <<2908, 2909>>, <<2911, 2913>>, <<2929, 2929>>, <<2947, 2947>>,
    <<2949, 2954>>, <<2958, 2960>>, <<2962, 2965>>, <<2969, 2970>>,
    <<2972, 2972>>, <<2974, 2975>>, <<2979, 2980>>, <<2984, 2986>>,
    <<2990, 3001>>, <<3024, 3024>>, <<3077, 3084>>, <<3086, 3088>>,
    <<3090, 3112>>, <<3114, 3129>>, <<3133, 3133>>, <<3160, 3162>>,
    <<3165, 3165>>, <<3168, 3169>>, <<3200, 3200>>, <<3205, 3212>>,
    <<3214, 3216>>, <<3218, 3240>>, <<3242, 3251>>, <<3253, 3257>>,
    <<3261, 3261>>, <<3293, 3294>>, <<3296, 3297>>, <<3313, 3314>>,
    <<3332, 3340>>, <<3342, 3344>>, <<3346, 3386>>, <<3389, 3389>>,
    <<3406, 3406>>, <<3412, 3414>>, <<3423, 3425>>, <<3450, 3455>>,
    <<3461, 3478>>, <<3482, 3505>>, <<3507, 3515>>, <<3517, 3517>>,
    <<3520, 3526>>, <<3585, 3632>>, <<3634, 3634>>, <<3648, 3654>>,
    <<3713, 3714>>, <<3716, 3716>>, <<3718, 3722>>, <<3724, 3747>>,
    <<3749, 3749>>, <<3751, 3760>>, <<3762, 3762>>, <<3773, 3773>>,
    <<3776, 3780>>, <<3782, 3782>>, <<3804, 3807>>, <<3840, 3840>>,
    <<3904, 3911>>, <<3913, 3948>>, <<3976, 3980>>, <<4096, 4138>>,
    <<4159, 4159>>, <<4176, 4181>>, <<4186, 4189>>, <<4193, 4193>>,
    <<4197, 4198>>, <<4206, 4208>>, <<4213, 4225>>, <<4238, 4238>>,
    <<4256, 4293>>, <<4295, 4295>>, <<4301, 4301>>, <<4304, 4346>>,
    <<4348, 4680>>, <<4682, 4685>>, <<4688, 4694>>, <<4696, 4696>>,
    <<4698, 4701>>, <<4704, 4744>>, <<4746, 4749>>, <<4752, 4784>>,
    <<4786, 4789>>, <<4792, 4798>>, <<4800, 4800>>, <<4802, 4805>>,
    <<4808, 4822>>, <<4824, 4880>>, <<4882, 4885>>, <<4888, 4954>>,
    <<4992, 5007>>, <<5024, 5109>>, <<5112, 5117>>, <<5121, 5740>>,
    <<5743, 5759>>, <<5761, 5786>>, <<5792, 5866>>, <<5870, 5880>>,
    <<5888, 5905>>, <<5919, 5937>>, <<5952, 5969>>, <<5984, 5996>>,
    <<5998, 6000>>, <<6016, 6067>>, <<6103, 6103>>, <<6108, 6108>>,
    <<6176, 6264>>, <<6272, 6312>>, <<6314, 6314>>, <<6320, 6389>>,
    <<6400, 6430>>, <<6480, 6509>>, <<6512, 6516>>, <<6528, 6571>>,
    <<6576, 6601>>, <<6656, 6678>>, <<6688, 6740>>, <<6823, 6823>>,
    <<6917, 6963>>, <<6981, 6988>>, <<7043, 7072>>, <<7086, 7087>>,
    <<7098, 7141>>, <<7168, 7203>>, <<7245, 7247>>, <<7258, 7293>>,
    <<7296, 7304>>, <<7312, 7354>>, <<7357, 7359>>, <<7401, 7404>>,
    <<7406, 7411>>, <<7413, 7414>>, <<7418, 7418>>, <<7424, 7615>>,
    <<7680, 7957>>, <<7960, 7965>>, <<7968, 8005>>, <<8008, 8013>>,
    <<8016, 8023>>, <<8025, 8025>>, <<8027, 8027>>, <<8029, 8029>>,
    <<8031, 8061>>, <<8064, 8116>>, <<8118, 8124>>, <<8126, 8126>>,
    <<8130, 8132>>, <<8134, 8140>>, <<8144, 8147>>, <<8150, 8155>>,
    <<8160, 8172>>, <<8178, 8180>>, <<8182, 8188>>, <<8305, 8305>>,
    <<8319, 8319>>, <<8336, 8348>>, <<8450, 8450>>, <<8455, 8455>>,
    <<8458, 8467>>, <<8469, 8469>>, <<8472, 8477>>, <<8484, 8484>>,
    <<8486, 8486>>, <<8488, 8488>>, <<8490, 8505>>, <<8508, 8511>>,
    <<8517, 8521>>, <<8526, 8526>>, <<8544, 8584>>, <<11264, 11492>>,
    <<11499, 11502>>, <<11506, 11507>>, <<11520, 11557>>, <<11559, 11559>>,
    <<11565, 11565>>, <<11568, 11623>>, <<11631, 11631>>, <<11648, 11670>>,
    <<11680, 11686>>, <<11688, 11694>>, <<11696, 11702>>, <<11704, 11710>>,
    <<11712, 11718>>, <<11720, 11726>>, <<11728, 11734>>, <<11736, 11742>>,
    <<12293, 12295>>, <<12321, 12329>>, <<12337, 12341>>, <<12344, 12348>>,
    <<12353, 12438>>, <<12445, 12447>>, <<12449, 12538>>, <<12540, 12543>>,
    <<12549, 12591>>, <<12593, 12686>>, <<12704, 12735>>, <<12784, 12799>>,
    <<13312, 19903>>, <<19968, 42124>>, <<42192, 42237>>, <<42240, 42508>>,
    <<42512, 42527>>, <<42538, 42539>>, <<42560, 42606>>, <<42623, 42653>>,
    <<42656, 42735>>, <<42775, 42783>>, <<42786, 42888>>, <<42891, 42954>>,
    <<42960, 42961>>, <<42963, 42963>>, <<42965, 42969>>, <<42994, 43009>>,
    <<43011, 43013>>, <<43015, 43018>>, <<43020, 43042>>, <<43072, 43123>>,
    <<43138, 43187>>, <<43250, 43255>>, <<43259, 43259>>, <<43261, 43262>>,
    <<43274, 43301>>, <<43312, 43334>>, <<43360, 43388>>, <<43396, 43442>>,
    <<43471, 43471>>, <<43488, 43492>>, <<43494, 43503>>, <<43514, 43518>>,
    <<43520, 43560>>, <<43584, 43586>>, <<43588, 43595>>, <<43616, 43638>>,
    <<43642, 43642>>, <<43646, 43695>>, <<43697, 43697>>, <<43701, 43702>>,
    <<43705, 43709>>, <<43712, 43712>>, <<43714, 43714>>, <<43739, 43741>>,
    <<43744, 43754>>, <<43762, 43764>>, <<43777, 43782>>, <<43785, 43790>>,
    <<43793, 43798>>, <<43808, 43814>>, <<43816, 43822>>, <<43824, 43866>>,
    <<43868, 43881>>, <<43888, 44002>>, <<44032, 55203>>, <<55216, 55238>>,
    <<55243, 55291>>, <<63744, 64109>>, <<64112, 64217>>, <<64256, 64262>>,
    <<64275, 64279>>, <<64285, 64285>>, <<64287, 64296>>, <<64298, 64310>>,
    <<64312, 64316>>, <<64318, 64318>>, <<64320, 64321>>, <<64323, 64324>>,
    <<64326, 64433>>, <<64467, 64605>>, <<64612, 64829>>, <<64848, 64911>>,
    <<64914, 64967>>, <<65008, 65017>>, <<65137, 65137>>, <<65139, 65139>>,
    <<65143, 65143>>, <<65145, 65145>>, <<65147, 65147>>, <<65149, 65149>>,
    <<65151, 65276>>, <<65313, 65338>>, <<65345, 65370>>, <<65382, 65437>>,
    <<65440, 65470>>, <<65474, 65479>>, <<65482, 65487>>, <<65490, 65495>>,
    <<65498, 65500>>, <<65536, 65547>>, <<65549, 65574>>, <<65576, 65594>>,
    <<65596, 65597>>, <<65599, 65613>>, <<65616, 65629>>, <<65664, 65786>>,
    <<65856, 65908>>, <<66176, 66204>>, <<66208, 66256>>, <<66304, 66335>>,
    <<66349, 66378>>, <<66384, 66421>>, <<66432, 66461>>, <<66464, 66499>>,
    <<66504, 66511>>, <<66513, 66517>>, <<66560, 66717>>, <<66736, 66771>>,
    <<66776, 66811>>, <<66816, 66855>>, <<66864, 66915>>, <<66928, 66938>>,
    <<66940, 66954>>, <<66956, 66962>>, <<66964, 66965>>, <<66967, 66977>>,
    <<66979, 66993>>, <<66995, 67001>>, <<67003, 67004>>, <<67072, 67382>>,
    <<67392, 67413>>, <<67424, 67431>>, <<67456, 67461>>, <<67463, 67504>>,
    <<67506, 67514>>, <<67584, 67589>>, <<67592, 67592>>, <<67594, 67637>>,
    <<67639, 67640>>, <<67644, 67644>>, <<67647, 67669>>, <<67680, 67702>>,
    <<67712, 67742>>, <<67808, 67826>>, <<67828, 67829>>, <<67840, 67861>>,
    <<67872, 67897>>, <<67968, 68023>>, <<68030, 68031>>, <<68096, 68096>>,
    <<68112, 68115>>, <<68117, 68119>>, <<68121, 68149>>, <<68192, 68220>>,
    <<68224, 68252>>, <<68288, 68295>>, <<68297, 68324>>, <<68352, 68405>>,
    <<68416, 68437>>, <<68448, 68466>>, <<68480, 68497>>, <<68608, 68680>>,
    <<68736, 68786>>, <<68800, 68850>>, <<68864, 68899>>, <<69248, 69289>>,
    <<69296, 69297>>, <<69376, 69404>>, <<69415, 69415>>, <<69424, 69445>>,
    <<69488, 69505>>, <<69552, 69572>>, <<69600, 69622>>, <<69635, 69687>>,
    <<69745, 69746>>, <<69749, 69749>>, <<69763, 69807>>, <<69840, 69864>>,
    <<69891, 69926>>, <<69956, 69956>>, <<69959, 69959>>, <<69968, 70002>>,
    <<70006, 70006>>, <<70019, 70066>>, <<70081, 70084>>, <<70106, 70106>>,
    <<70108, 70108>>, <<70144, 70161>>, <<70163, 70187>>, <<70272, 70278>>,
    <<70280, 70280>>, <<70282, 70285>>, <<70287, 70301>>, <<70303, 70312>>,
    <<70320, 70366>>, <<70405, 70412>>, <<70415, 70416>>, <<70419, 70440>>,
    <<70442, 70448>>, <<70450, 70451>>, <<70453, 70457>>, <<70461, 70461>>,
    <<70480, 70480>>, <<70493, 70497>>, <<70656, 70708>>, <<70727, 70730>>,
    <<70751, 70753>>, <<70784, 70831>>, <<70852, 70853>>, <<70855, 70855>>,
    <<71040, 71086>>, <<71128, 71131>>, <<71168, 71215>>, <<71236, 71236>>,
    <<71296, 71338>>, <<71352, 71352>>, <<71424, 71450>>, <<71488, 71494>>,
    <<71680, 71723>>, <<71840, 71903>>, <<71935, 71942>>, <<71945, 71945>>,
    <<71948, 71955>>, <<71957, 71958>>, <<71960, 71983>>, <<71999, 71999>>,
    <<72001, 72001>>, <<72096, 72103>>, <<72106, 72144>>, <<72161, 72161>>,
    <<72163, 72163>>, <<72192, 72192>>, <<72203, 72242>>, <<72250, 72250>>,
    <<72272, 72272>>, <<72284, 72329>>, <<72349, 72349>>, <<72368, 72440>>,
    <<72704, 72712>>, <<72714, 72750>>, <<72768, 72768>>, <<72818, 72847>>,
    <<72960, 72966>>, <<72968, 72969>>, <<72971, 73008>>, <<73030, 73030>>,
    <<73056, 73061>>, <<73063, 73064>>, <<73066, 73097>>, <<73112, 73112>>,
    <<73440, 73458>>, <<73648, 73648>>, <<73728, 74649>>, <<74752, 74862>>,
    <<74880, 75075>>, <<77712, 77808>>, <<77824, 78894>>, <<82944, 83526>>,
    <<92160, 92728>>, <<92736, 92766>>, <<92784, 92862>>, <<92880, 92909>>,
    <<92928, 92975>>, <<92992, 92995>>, <<93027, 93047>>, <<93053, 93071>>,
    <<93760, 93823>>, <<93952, 94026>>, <<94032, 94032>>, <<94099, 94111>>,
    <<94176, 94177>>, <<94179, 94179>>, <<94208, 100343>>, <<100352, 101589>>,
    <<101632, 101640>>, <<110576, 110579>>, <<110581, 110587>>,
    <<110589, 110590>>, <<110592, 110882>>, <<110928, 110930>>,
    <<110948, 110951>>, <<110960, 111355>>, <<113664, 113770>>,
    <<113776, 113788>>, <<113792, 113800>>, <<113808, 113817>>,
    <<119808, 119892>>, <<119894, 119964>>, <<119966, 119967>>,
    <<119970, 119970>>, <<119973, 119974>>, <<119977, 119980>>,
    <<119982, 119993>>, <<119995, 119995>>, <<119997, 120003>>,
    <<120005, 120069>>, <<120071, 120074>>, <<120077, 120084>>,
    <<120086, 120092>>, <<120094, 120121>>, <<120123, 120126>>,
    <<120128, 120132>>, <<120134, 120134>>, <<120138, 120144>>,
    <<120146, 120485>>, <<120488, 120512>>, <<120514, 120538>>,
    <<120540, 120570>>, <<120572, 120596>>, <<120598, 120628>>,
    <<120630, 120654>>, <<120656, 120686>>, <<120688, 120712>>,
    <<120714, 120744>>, <<120746, 120770>>, <<120772, 120779>>,
    <<122624, 122654>>, <<123136, 123180>>, <<123191, 123197>>,
    <<123214, 123214>>, <<123536, 123565>>, <<123584, 123627>>,
    <<124896, 124902>>, <<124904, 124907>>, <<124909, 124910>>,
    <<124912, 124926>>, <<124928, 125124>>, <<125184, 125251>>,
    <<125259, 125259>>, <<126464, 126467>>, <<126469, 126495>>,
    <<126497, 126498>>, <<126500, 126500>>, <<126503, 126503>>,
    <<126505, 126514>>, <<126516, 126519>>, <<126521, 126521>>,
    <<126523, 126523>>, <<126530, 126530>>, <<126535, 126535>>,
    <<126537, 126537>>, <<126539, 126539>>, <<126541, 126543>>,
    <<126545, 126546>>, <<126548, 126548>>, <<126551, 126551>>,
    <<126553, 126553>>, <<126555, 126555>>, <<126557, 126557>>,
    <<126559, 126559>>, <<126561, 126562>>, <<126564, 126564>>,
    <<126567, 126570>>, <<126572, 126578>>, <<126580, 126583>>,
    <<126585, 126588>>, <<126590, 126590>>, <<126592, 126601>>,
    <<126603, 126619>>, <<126625, 126627>>, <<126629, 126633>>,
    <<126635, 126651>>, <<131072, 173791>>, <<173824, 177976>>,
    <<177984, 178205>>, <<178208, 183969>>, <<183984, 191456>>,
    <<194560, 195101>>, <<196608, 201546>>
    >>

\* unicode_xid's XID_Continue table: the ranges of the derived property
\* XID_Continue of Unicode 14.0.0, complete
XID_Continue_table ==
    <<
    <<48, 57>>, <<65, 90>>, <<95, 95>>, <<97, 122>>, <<170, 170>>,
    <<181, 181>>, <<183, 183>>, <<186, 186>>, <<192, 214>>, <<216, 246>>,
    <<248, 705>>, <<710, 721>>, <<736, 740>>, <<748, 748>>, <<750, 750>>,
    <<768, 884>>, <<886, 887>>, <<891, 893>>, <<895, 895>>, <<902, 906>>,
    <<908, 908>>, <<910, 929>>, <<931, 1013>>, <<1015, 1153>>, <<1155, 1159>>,
    <<1162, 1327>>, <<1329, 1366>>, <<1369, 1369>>, <<1376, 1416>>,
    <<1425, 1469>>, <<1471, 1471>>, <<1473, 1474>>, <<1476, 1477>>,
    <<1479, 1479>>, <<1488, 1514>>, <<1519, 1522>>, <<1552, 1562>>,
    <<1568, 1641>>, <<1646, 1747>>, <<1749, 1756>>, <<1759, 1768>>,
    <<1770, 1788>>, <<1791, 1791>>, <<1808, 1866>>, <<1869, 1969>>,
    <<1984, 2037>>, <<2042, 2042>>, <<2045, 2045>>, <<2048, 2093>>,
    <<2112, 2139>>, <<2144, 2154>>, <<2160, 2183>>, <<2185, 2190>>,
    <<2200, 2273>>, <<2275, 2403>>, <<2406, 2415>>, <<2417, 2435>>,
    <<2437, 2444>>, <<2447, 2448>>, <<2451, 2472>>, <<2474, 2480>>,
    <<2482, 2482>>, <<2486, 2489>>, <<2492, 2500>>, <<2503, 2504>>,
    <<2507, 2510>>, <<2519, 2519>>, <<2524, 2525>>, <<2527, 2531>>,
    <<2534, 2545>>, <<2556, 2556>>, <<2558, 2558>>, <<2561, 2563>>,
    <<2565, 2570>>, <<2575, 2576>>, <<2579, 2600>>, <<2602, 2608>>,
    <<2610, 2611>>, <<2613, 2614>>, <<2616, 2617>>, <<2620, 2620>>,
    <<2622, 2626>>, <<2631, 2632>>, <<2635, 2637>>, <<2641, 2641>>,
    <<2649, 2652>>, <<2654, 2654>>, <<2662, 2677>>, <<2689, 2691>>,
    <<2693, 2701>>, <<2703, 2705>>, <<2707, 2728>>, <<2730, 2736>>,
    <<2738, 2739>>, <<2741, 2745>>, <<2748, 2757>>, <<2759, 2761>>,
    <<2763, 2765>>, <<2768, 2768>>, <<2784, 2787>>, <<2790, 2799>>,
    <<2809, 2815>>, <<2817, 2819>>, <<2821, 2828>>, <<2831, 2832>>,
    <<2835, 2856>>, <<2858, 2864>>, <<2866, 2867>>, <<2869, 2873>>,
    <<2876, 2884>>, <<2887, 2888>>, <<2891, 2893>>, <<2901, 2903>>,
    <<2908, 2909>>, <<2911, 2915>>, <<2918, 2927>>, <<2929, 2929>>,
    <<2946, 2947>>, <<2949, 2954>>, <<2958, 2960>>, <<2962, 2965>>,
    <<2969, 2970>>, <<2972, 2972>>, <<2974, 2975>>, <<2979, 2980>>,
    <<2984, 2986>>, <<2990, 3001>>, <<3006, 3010>>, <<3014, 3016>>,
    <<3018, 3021>>, <<3024, 3024>>, <<3031, 3031>>, <<3046, 3055>>,
    <<3072, 3084>>, <<3086, 3088>>, <<3090, 3112>>, <<3114, 3129>>,
    <<3132, 3140>>, <<3142, 3144>>, <<3146, 3149>>, <<3157, 3158>>,
    <<3160, 3162>>, <<3165, 3165>>, <<3168, 3171>>, <<3174, 3183>>,
    <<3200, 3203>>, <<3205, 3212>>, <<3214, 3216>>, <<3218, 3240>>,
    <<3242, 3251>>, <<3253, 3257>>, <<3260, 3268>>, <<3270, 3272>>,
    <<3274, 3277>>, <<3285, 3286>>, <<3293, 3294>>, <<3296, 3299>>,
    <<3302, 3311>>, <<3313, 3314>>, <<3328, 3340>>, <<3342, 3344>>,
    <<3346, 3396>>, <<3398, 3400>>, <<3402, 3406>>, <<3412, 3415>>,
    <<3423, 3427>>, <<3430, 3439>>, <<3450, 3455>>, <<3457, 3459>>,
    <<3461, 3478>>, <<3482, 3505>>, <<3507, 3515>>, <<3517, 3517>>,
    <<3520, 3526>>, <<3530, 3530>>, <<3535, 3540>>, <<3542, 3542>>,
    <<3544, 3551>>, <<3558, 3567>>, <<3570, 3571>>, <<3585, 3642>>,
    <<3648, 3662>>, <<3664, 3673>>, <<3713, 3714>>, <<3716, 3716>>,
    <<3718, 3722>>, <<3724, 3747>>, <<3749, 3749>>, <<3751, 3773>>,
    <<3776, 3780>>, <<3782, 3782>>, <<3784, 3789>>, <<3792, 3801>>,
    <<3804, 3807>>, <<3840, 3840>>, <<3864, 3865>>, <<3872, 3881>>,
    <<3893, 3893>>, <<3895, 3895>>, <<3897, 3897>>, <<3902, 3911>>,
    <<3913, 3948>>, <<3953, 3972>>, <<3974, 3991>>, <<3993, 4028>>,
    <<4038, 4038>>, <<4096, 4169>>, <<4176, 4253>>, <<4256, 4293>>,
    <<4295, 4295>>, <<4301, 4301>>, <<4304, 4346>>, <<4348, 4680>>,
    <<4682, 4685>>, <<4688, 4694>>, <<4696, 4696>>, <<4698, 4701>>,
    <<4704, 4744>>, <<4746, 4749>>, <<4752, 4784>>, <<4786, 4789>>,
    <<4792, 4798>>, <<4800, 4800>>, <<4802, 4805>>, <<4808, 4822>>,
    <<4824, 4880>>, <<4882, 4885>>, <<4888, 4954>>, <<4957, 4959>>,
    <<4969, 4977>>, <<4992, 5007>>, <<5024, 5109>>, <<5112, 5117>>,
    <<5121, 5740>>, <<5743, 5759>>, <<5761, 5786>>, <<5792, 5866>>,
    <<5870, 5880>>, <<5888, 5909>>, <<5919, 5940>>, <<5952, 5971>>,
    <<5984, 5996>>, <<5998, 6000>>, <<6002, 6003>>, <<6016, 6099>>,
    <<6103, 6103>>, <<6108, 6109>>, <<6112, 6121>>, <<6155, 6157>>,
    <<6159, 6169>>, <<6176, 6264>>, <<6272, 6314>>, <<6320, 6389>>,
    <<6400, 6430>>, <<6432, 6443>>, <<6448, 6459>>, <<6470, 6509>>,
    <<6512, 6516>>, <<6528, 6571>>, <<6576, 6601>>, <<6608, 6618>>,
    <<6656, 6683>>, <<6688, 6750>>, <<6752, 6780>>, <<6783, 6793>>,
    <<6800, 6809>>, <<6823, 6823>>, <<6832, 6845>>, <<6847, 6862>>,
    <<6912, 6988>>, <<6992, 7001>>, <<7019, 7027>>, <<7040, 7155>>,
    <<7168, 7223>>, <<7232, 7241>>, <<7245, 7293>>, <<7296, 7304>>,
    <<7312, 7354>>, <<7357, 7359>>, <<7376, 7378>>, <<7380, 7418>>,
    <<7424, 7957>>, <<7960, 7965>>, <<7968, 8005>>, <<8008, 8013>>,
    <<8016, 8023>>, <<8025, 8025>>, <<8027, 8027>>, <<8029, 8029>>,
    <<8031, 8061>>, <<8064, 8116>>, <<8118, 8124>>, <<8126, 8126>>,
    <<8130, 8132>>, <<8134, 8140>>, <<8144, 8147>>, <<8150, 8155>>,
    <<8160, 8172>>, <<8178, 8180>>, <<8182, 8188>>, <<8255, 8256>>,
    <<8276, 8276>>, <<8305, 8305>>, <<8319, 8319>>, <<8336, 8348>>,
    <<8400, 8412>>, <<8417, 8417>>, <<8421, 8432>>, <<8450, 8450>>,
    <<8455, 8455>>, <<8458, 8467>>, <<8469, 8469>>, <<8472, 8477>>,
    <<8484, 8484>>, <<8486, 8486>>, <<8488, 8488>>, <<8490, 8505>>,
    <<8508, 8511>>, <<8517, 8521>>, <<8526, 8526>>, <<8544, 8584>>,
    <<11264, 11492>>, <<11499, 11507>>, <<11520, 11557>>, <<11559, 11559>>,
    <<11565, 11565>>, <<11568, 11623>>, <<11631, 11631>>, <<11647, 11670>>,
    <<11680, 11686>>, <<11688, 11694>>, <<11696, 11702>>, <<11704, 11710>>,
    <<11712, 11718>>, <<11720, 11726>>, <<11728, 11734>>, <<11736, 11742>>,
    <<11744, 11775>>, <<12293, 12295>>, <<12321, 12335>>, <<12337, 12341>>,
    <<12344, 12348>>, <<12353, 12438>>, <<12441, 12442>>, <<12445, 12447>>,
    <<12449, 12538>>, <<12540, 12543>>, <<12549, 12591>>, <<12593, 12686>>,
    <<12704, 12735>>, <<12784, 12799>>, <<13312, 19903>>, <<19968, 42124>>,
    <<42192, 42237>>, <<42240, 42508>>, <<42512, 42539>>, <<42560, 42607>>,
    <<42612, 42621>>, <<42623, 42737>>, <<42775, 42783>>, <<42786, 42888>>,
    <<42891, 42954>>, <<42960, 42961>>, <<42963, 42963>>, <<42965, 42969>>,
    <<42994, 43047>>, <<43052, 43052>>, <<43072, 43123>>, <<43136, 43205>>,
    <<43216, 43225>>, <<43232, 43255>>, <<43259, 43259>>, <<43261, 43309>>,
    <<43312, 43347>>, <<43360, 43388>>, <<43392, 43456>>, <<43471, 43481>>,
    <<43488, 43518>>, <<43520, 43574>>, <<43584, 43597>>, <<43600, 43609>>,
    <<43616, 43638>>, <<43642, 43714>>, <<43739, 43741>>, <<43744, 43759>>,
    <<43762, 43766>>, <<43777, 43782>>, <<43785, 43790>>, <<43793, 43798>>,
    <<43808, 43814>>, <<43816, 43822>>, <<43824, 43866>>, <<43868, 43881>>,
    <<43888, 44010>>, <<44012, 44013>>, <<44016, 44025>>, <<44032, 55203>>,
    <<55216, 55238>>, <<55243, 55291>>, <<63744, 64109>>, <<64112, 64217>>,
    <<64256, 64262>>, <<64275, 64279>>, <<64285, 64296>>, <<64298, 64310>>,
    <<64312, 64316>>, <<64318, 64318>>, <<64320, 64321>>, <<64323, 64324>>,
    <<64326, 64433>>, <<64467, 64605>>, <<64612, 64829>>, <<64848, 64911>>,
    <<64914, 64967>>, <<65008, 65017>>, <<65024, 65039>>, <<65056, 65071>>,
    <<65075, 65076>>, <<65101, 65103>>, <<65137, 65137>>, <<65139, 65139>>,
    <<65143, 65143>>, <<65145, 65145>>, <<65147, 65147>>, <<65149, 65149>>,
    <<65151, 65276>>, <<65296, 65305>>, <<65313, 65338>>, <<65343, 65343>>,
    <<65345, 65370>>, <<65382, 65470>>, <<65474, 65479>>, <<65482, 65487>>,
    <<65490, 65495>>, <<65498, 65500>>, <<65536, 65547>>, <<65549, 65574>>,
    <<65576, 65594>>, <<65596, 65597>>, <<65599, 65613>>, <<65616, 65629>>,
    <<65664, 65786>>, <<65856, 65908>>, <<66045, 66045>>, <<66176, 66204>>,
    <<66208, 66256>>, <<66272, 66272>>, <<66304, 66335>>, <<66349, 66378>>,
    <<66384, 66426>>, <<66432, 66461>>, <<66464, 66499>>, <<66504, 66511>>,
    <<66513, 66517>>, <<66560, 66717>>, <<66720, 66729>>, <<66736, 66771>>,
    <<66776, 66811>>, <<66816, 66855>>, <<66864, 66915>>, <<66928, 66938>>,
    <<66940, 66954>>, <<66956, 66962>>, <<66964, 66965>>, <<66967, 66977>>,
    <<66979, 66993>>, <<66995, 67001>>, <<67003, 67004>>, <<67072, 67382>>,
    <<67392, 67413>>, <<67424, 67431>>, <<67456, 67461>>, <<67463, 67504>>,
    <<67506, 67514>>, <<67584, 67589>>, <<67592, 67592>>, <<67594, 67637>>,
    <<67639, 67640>>, <<67644, 67644>>, <<67647, 67669>>, <<67680, 67702>>,
    <<67712, 67742>>, <<67808, 67826>>, <<67828, 67829>>, <<67840, 67861>>,
    <<67872, 67897>>, <<67968, 68023>>, <<68030, 68031>>, <<68096, 68099>>,
    <<68101, 68102>>, <<68108, 68115>>, <<68117, 68119>>, <<68121, 68149>>,
    <<68152, 68154>>, <<68159, 68159>>, <<68192, 68220>>, <<68224, 68252>>,
    <<68288, 68295>>, <<68297, 68326>>, <<68352, 68405>>, <<68416, 68437>>,
    <<68448, 68466>>, <<68480, 68497>>, <<68608, 68680>>, <<68736, 68786>>,
    <<68800, 68850>>, <<68864, 68903>>, <<68912, 68921>>, <<69248, 69289>>,
    <<69291, 69292>>, <<69296, 69297>>, <<69376, 69404>>, <<69415, 69415>>,
    <<69424, 69456>>, <<69488, 69509>>, <<69552, 69572>>, <<69600, 69622>>,
    <<69632, 69702>>, <<69734, 69749>>, <<69759, 69818>>, <<69826, 69826>>,
    <<69840, 69864>>, <<69872, 69881>>, <<69888, 69940>>, <<69942, 69951>>,
    <<69956, 69959>>, <<69968, 70003>>, <<70006, 70006>>, <<70016, 70084>>,
    <<70089, 70092>>, <<70094, 70106>>, <<70108, 70108>>, <<70144, 70161>>,
    <<70163, 70199>>, <<70206, 70206>>, <<70272, 70278>>, <<70280, 70280>>,
    <<70282, 70285>>, <<70287, 70301>>, <<70303, 70312>>, <<70320, 70378>>,
    <<70384, 70393>>, <<70400, 70403>>, <<70405, 70412>>, <<70415, 70416>>,
    <<70419, 70440>>, <<70442, 70448>>, <<70450, 70451>>, <<70453, 70457>>,
    <<70459, 70468>>, <<70471, 70472>>, <<70475, 70477>>, <<70480, 70480>>,
    <<70487, 70487>>, <<70493, 70499>>, <<70502, 70508>>, <<70512, 70516>>,
    <<70656, 70730>>, <<70736, 70745>>, <<70750, 70753>>, <<70784, 70853>>,
    <<70855, 70855>>, <<70864, 70873>>, <<71040, 71093>>, <<71096, 71104>>,
    <<71128, 71133>>, <<71168, 71232>>, <<71236, 71236>>, <<71248, 71257>>,
    <<71296, 71352>>, <<71360, 71369>>, <<71424, 71450>>, <<71453, 71467>>,
    <<71472, 71481>>, <<71488, 71494>>, <<71680, 71738>>, <<71840, 71913>>,
    <<71935, 71942>>, <<71945, 71945>>, <<71948, 71955>>, <<71957, 71958>>,
    <<71960, 71989>>, <<71991, 71992>>, <<71995, 72003>>, <<72016, 72025>>,
    <<72096, 72103>>, <<72106, 72151>>, <<72154, 72161>>, <<72163, 72164>>,
    <<72192, 72254>>, <<72263, 72263>>, <<72272, 72345>>, <<72349, 72349>>,
    <<72368, 72440>>, <<72704, 72712>>, <<72714, 72758>>, <<72760, 72768>>,
    <<72784, 72793>>, <<72818, 72847>>, <<72850, 72871>>, <<72873, 72886>>,
    <<72960, 72966>>, <<72968, 72969>>, <<72971, 73014>>, <<73018, 73018>>,
    <<73020, 73021>>, <<73023, 73031>>, <<73040, 73049>>, <<73056, 73061>>,
    <<73063, 73064>>, <<73066, 73102>>, <<73104, 73105>>, <<73107, 73112>>,
    <<73120, 73129>>, <<73440, 73462>>, <<73648, 73648>>, <<73728, 74649>>,
    <<74752, 74862>>, <<74880, 75075>>, <<77712, 77808>>, <<77824, 78894>>,
    <<82944, 83526>>, <<92160, 92728>>, <<92736, 92766>>, <<92768, 92777>>,
    <<92784, 92862>>, <<92864, 92873>>, <<92880, 92909>>, <<92912, 92916>>,
    <<92928, 92982>>, <<92992, 92995>>, <<93008, 93017>>, <<93027, 93047>>,
    <<93053, 93071>>, <<93760, 93823>>, <<93952, 94026>>, <<94031, 94087>>,
    <<94095, 94111>>, <<94176, 94177>>, <<94179, 94180>>, <<94192, 94193>>,
    <<94208, 100343>>, <<100352, 101589>>, <<101632, 101640>>,
    <<110576, 110579>>, <<110581, 110587>>, <<110589, 110590>>,
    <<110592, 110882>>, <<110928, 110930>>, <<110948, 110951>>,
    <<110960, 111355>>, <<113664, 113770>>, <<113776, 113788>>,
    <<113792, 113800>>, <<113808, 113817>>, <<113821, 113822>>,
    <<118528, 118573>>, <<118576, 118598>>, <<119141, 119145>>,
    <<119149, 119154>>, <<119163, 119170>>, <<119173, 119179>>,
    <<119210, 119213>>, <<119362, 119364>>, <<119808, 119892>>,
    <<119894, 119964>>, <<119966, 119967>>, <<119970, 119970>>,
    <<119973, 119974>>, <<119977, 119980>>, <<119982, 119993>>,
    <<119995, 119995>>, <<119997, 120003>>, <<120005, 120069>>,
    <<120071, 120074>>, <<120077, 120084>>, <<120086, 120092>>,
    <<120094, 120121>>, <<120123, 120126>>, <<120128, 120132>>,
    <<120134, 120134>>, <<120138, 120144>>, <<120146, 120485>>,
    <<120488, 120512>>, <<120514, 120538>>, <<120540, 120570>>,
    <<120572, 120596>>, <<120598, 120628>>, <<120630, 120654>>,
    <<120656, 120686>>, <<120688, 120712>>, <<120714, 120744>>,
    <<120746, 120770>>, <<120772, 120779>>, <<120782, 120831>>,
    <<121344, 121398>>, <<121403, 121452>>, <<121461, 121461>>,
    <<121476, 121476>>, <<121499, 121503>>, <<121505, 121519>>,
    <<122624, 122654>>, <<122880, 122886>>, <<122888, 122904>>,
    <<122907, 122913>>, <<122915, 122916>>, <<122918, 122922>>,
    <<123136, 123180>>, <<123184, 123197>>, <<123200, 123209>>,
    <<123214, 123214>>, <<123536, 123566>>, <<123584, 123641>>,
    <<124896, 124902>>, <<124904, 124907>>, <<124909, 124910>>,
    <<124912, 124926>>, <<124928, 125124>>, <<125136, 125142>>,
    <<125184, 125259>>, <<125264, 125273>>, <<126464, 126467>>,
    <<126469, 126495>>, <<126497, 126498>>, <<126500, 126500>>,
    <<126503, 126503>>, <<126505, 126514>>, <<126516, 126519>>,
    <<126521, 126521>>, <<126523, 126523>>, <<126530, 126530>>,
    <<126535, 126535>>, <<126537, 126537>>, <<126539, 126539>>,
    <<126541, 126543>>, <<126545, 126546>>, <<126548, 126548>>,
    <<126551, 126551>>, <<126553, 126553>>, <<126555, 126555>>,
    <<126557, 126557>>, <<126559, 126559>>, <<126561, 126562>>,
    <<126564, 126564>>, <<126567, 126570>>, <<126572, 126578>>,
    <<126580, 126583>>, <<126585, 126588>>, <<126590, 126590>>,
    <<126592, 126601>>, <<126603, 126619>>, <<126625, 126627>>,
    <<126629, 126633>>, <<126635, 126651>>, <<130032, 130041>>,
    <<131072, 173791>>, <<173824, 177976>>, <<177984, 178205>>,
    <<178208, 183969>>, <<183984, 191456>>, <<194560, 195101>>,
    <<196608, 201546>>, <<917760, 917999>>
    >>

is_xid_start(c) ==
    bsearch_range_table(c, XID_Start_table, 1, Len(XID_Start_table))

is_xid_continue(c) ==
    bsearch_range_table(c, XID_Continue_table, 1, Len(XID_Continue_table))

is_id_start(c) ==
    IF c = 95 \/ is_xid_start(c) THEN TRUE ELSE FALSE

is_id_continue(c) == is_xid_continue(c)

\* is_whitespace that takes NUL for whitespace
is_whitespace_or_nul(c) == c \in {0, 9, 10, 32}

is_whitespace(c) == c \in {9, 10, 32}

\* ------------------------------------------------------------------------
\* Cursor of src/lexer/cursor.rs
\*   chars       the codepoints not yet consumed (the Chars iterator)
\*   initial_len the baseline of len_consumed, in bytes
\*   prev        the last consumed codepoint
\* ------------------------------------------------------------------------

\* Chars::next: the iterator afterwards and the returned Option<char>
chars_next(chars) ==
    IF chars = <<>>
    THEN [chars |-> chars, ret |-> None]
    ELSE [chars |-> Tail(chars), ret |-> Some(Head(chars))]

new(inp) ==
    [initial_len |-> ByteLen(inp), chars |-> inp, prev |-> 0]

is_empty(c) == ByteLen(c.chars) = 0

\* usize subtraction; a negative value stands for the usize underflow
len_consumed(c) == c.initial_len - ByteLen(c.chars)

\* reset_len_consumed that zeroes the baseline
reset_len_consumed_to_zero(c) == [c EXCEPT !.initial_len = 0]

reset_len_consumed(c) == [c EXCEPT !.initial_len = ByteLen(c.chars)]

\* adv that forgets to record the consumed codepoint
adv_without_prev(c) ==
    LET n == chars_next(c.chars) IN
    IF ~n.ret.some
    THEN [cursor |-> [c EXCEPT !.chars = n.chars], ret |-> None]
    ELSE [cursor |-> [c EXCEPT !.chars = n.chars], ret |-> Some(n.ret.val)]

\* adv: the cursor afterwards and the returned Option<char>
adv(c) ==
    LET n == chars_next(c.chars) IN
    IF ~n.ret.some
    THEN [cursor |-> [c EXCEPT !.chars = n.chars], ret |-> None]
    ELSE [cursor |-> [c EXCEPT !.chars = n.chars, !.prev = n.ret.val],
          ret    |-> Some(n.ret.val)]

\* peek calling next() on the iterator itself instead of a clone
peek_without_clone(c) ==
    LET n == chars_next(c.chars) IN
    [cursor |-> [c EXCEPT !.chars = n.chars],
     ret |-> IF n.ret.some THEN n.ret.val ELSE EOF_CHAR]

\* peek: next() is called on a clone of the iterator, the cursor keeps its own
peek(c) ==
    LET n == chars_next(c.chars) IN
    [cursor |-> c, ret |-> IF n.ret.some THEN n.ret.val ELSE EOF_CHAR]

\* The conditions handed to adv_until: the two the lexer uses, the one of
\* the unit tests, and one that holds of every codepoint.
Conditions == {"is_whitespace", "is_id_continue", "condition_notdigit", "always"}

condition_notdigit(ch) == IF InRange(ch, 48, 57) THEN FALSE ELSE TRUE

Cond(p, ch) ==
    CASE p = "is_whitespace"      -> is_whitespace(ch)
      [] p = "is_id_continue"     -> is_id_continue(ch)
      [] p = "condition_notdigit" -> condition_notdigit(ch)
      [] p = "always"             -> TRUE

\* adv_until: while condition(self.peek()) && !self.is_empty() { self.adv(); }
\* The result is the cursor afterwards, in call order the codepoints the
\* condition was evaluated on, and whether the loop hangs: an iteration that
\* leaves the cursor as it found it repeats for ever.
RECURSIVE adv_until_from(_, _, _)
adv_until_from(c, p, calls) ==
    LET pk == peek(c)
        c1 == pk.cursor
    IN  IF Cond(p, pk.ret) /\ ~is_empty(c1)
        THEN LET c2 == adv(c1).cursor IN
             IF c2 = c
             THEN [cursor |-> c2, calls |-> Append(calls, pk.ret), hung |-> TRUE]
             ELSE adv_until_from(c2, p, Append(calls, pk.ret))
        ELSE [cursor |-> c1, calls |-> Append(calls, pk.ret), hung |-> FALSE]

\* adv_until with the emptiness check in front of the condition:
\* while !self.is_empty() && condition(self.peek()) { self.adv(); }
RECURSIVE adv_until_empty_first_from(_, _, _)
adv_until_empty_first_from(c, p, calls) ==
    IF is_empty(c)
    THEN [cursor |-> c, calls |-> calls, hung |-> FALSE]
    ELSE LET pk == peek(c) IN
         IF Cond(p, pk.ret)
         THEN adv_until_empty_first_from(adv(pk.cursor).cursor, p,
                                         Append(calls, pk.ret))
         ELSE [cursor |-> pk.cursor, calls |-> Append(calls, pk.ret),
               hung |-> FALSE]

adv_until_empty_first(c, p) == adv_until_empty_first_from(c, p, <<>>)

\* adv_until with `if` in the place of `while`: at most one adv
adv_until_if(c, p) ==
    LET pk == peek(c) IN
    IF Cond(p, pk.ret) /\ ~is_empty(pk.cursor)
    THEN [cursor |-> adv(pk.cursor).cursor, calls |-> <<pk.ret>>, hung |-> FALSE]
    ELSE [cursor |-> pk.cursor, calls |-> <<pk.ret>>, hung |-> FALSE]

adv_until(c, p) == adv_until_from(c, p, <<>>)

\* ------------------------------------------------------------------------
\* Cursor of src/cursor.rs
\*   len    set to the byte length of the input, decremented by every adv
\* ------------------------------------------------------------------------

src_new(inp) ==
    [len |-> ByteLen(inp), chars |-> inp, prev |-> 0]

src_is_empty(c) == c.len = 0

src_adv(c) ==
    LET n == chars_next(c.chars) IN
    IF ~n.ret.some
    THEN [cursor |-> [c EXCEPT !.chars = n.chars], ret |-> None]
    ELSE [cursor |-> [c EXCEPT !.chars = n.chars, !.len = c.len - 1,
                               !.prev = n.ret.val],
          ret    |-> Some(n.ret.val)]

src_peek(c) ==
    LET n == chars_next(c.chars) IN
    [cursor |-> c, ret |-> IF n.ret.some THEN n.ret.val ELSE EOF_CHAR]

RECURSIVE src_adv_until_from(_, _, _)
src_adv_until_from(c, p, calls) ==
    LET pk == src_peek(c)
        c1 == pk.cursor
    IN  IF Cond(p, pk.ret) /\ ~src_is_empty(c1)
        THEN LET c2 == src_adv(c1).cursor IN
             IF c2 = c
             THEN [cursor |-> c2, calls |-> Append(calls, pk.ret), hung |-> TRUE]
             ELSE src_adv_until_from(c2, p, Append(calls, pk.ret))
        ELSE [cursor |-> c1, calls |-> Append(calls, pk.ret), hung |-> FALSE]

src_adv_until(c, p) == src_adv_until_from(c, p, <<>>)

\* ------------------------------------------------------------------------
\* Tokens and the tokenizer (src/lexer.rs)
\* ------------------------------------------------------------------------

Whitespace == [tag |-> "Whitespace"]

Identifier == [tag |-> "Identifier"]

Str(t) == [tag |-> "Str", terminated |-> t]

Literal(k) == [tag |-> "Literal", kind |-> k]

Semi == [tag |-> "Semi"]

OpenParen == [tag |-> "OpenParen"]

CloseParen == [tag |-> "CloseParen"]

OpenBrace == [tag |-> "OpenBrace"]

CloseBrace == [tag |-> "CloseBrace"]

Exclam == [tag |-> "Exclam"]

Unknown == [tag |-> "Unknown"]

Token_new(kind, len) == [kind |-> kind, len |-> len]

eat_whitespace(c) ==
    LET r == adv_until(c, "is_whitespace") IN
    [cursor |-> r.cursor, kind |-> Whitespace, hung |-> r.hung]

eat_id_continue(c) ==
    LET r == adv_until(c, "is_id_continue") IN
    [cursor |-> r.cursor, kind |-> Identifier, hung |-> r.hung]

\* eat_double_quote_str that gives up at a space
RECURSIVE eat_double_quote_str_to_space(_)
eat_double_quote_str_to_space(c) ==
    LET a == adv(c) IN
    IF ~a.ret.some THEN [cursor |-> a.cursor, terminated |-> FALSE]
    ELSE IF a.ret.val = 34 THEN [cursor |-> a.cursor, terminated |-> TRUE]
    ELSE IF a.ret.val = 32 THEN [cursor |-> a.cursor, terminated |-> FALSE]
    ELSE eat_double_quote_str_to_space(a.cursor)

\* eat_double_quote_str that skips the codepoint after a backslash
RECURSIVE eat_double_quote_str_escaping(_)
eat_double_quote_str_escaping(c) ==
    LET a == adv(c) IN
    IF ~a.ret.some THEN [cursor |-> a.cursor, terminated |-> FALSE]
    ELSE IF a.ret.val = 34 THEN [cursor |-> a.cursor, terminated |-> TRUE]
    ELSE IF a.ret.val = 92 THEN eat_double_quote_str_escaping(adv(a.cursor).cursor)
    ELSE eat_double_quote_str_escaping(a.cursor)

\* loop { match self.adv() { None => break, Some('"') => return true,
\*                           Some(_) => () } } return false
RECURSIVE eat_double_quote_str(_)
eat_double_quote_str(c) ==
    LET a == adv(c) IN
    IF ~a.ret.some THEN [cursor |-> a.cursor, terminated |-> FALSE]
    ELSE IF a.ret.val = 34 THEN [cursor |-> a.cursor, terminated |-> TRUE]
    ELSE eat_double_quote_str(a.cursor)

\* eat_token's match with the arm of '!' left out
eat_token_kind_no_exclam(c, first_char) ==
    IF is_whitespace(first_char) THEN eat_whitespace(c)
    ELSE IF is_id_start(first_char) THEN eat_id_continue(c)
    ELSE IF first_char = 34
         THEN LET s == eat_double_quote_str(c) IN
              [cursor |-> s.cursor, kind |-> Literal(Str(s.terminated)),
               hung |-> FALSE]
    ELSE IF first_char = 59  THEN [cursor |-> c, kind |-> Semi, hung |-> FALSE]
    ELSE IF first_char = 40  THEN [cursor |-> c, kind |-> OpenParen, hung |-> FALSE]
    ELSE IF first_char = 41  THEN [cursor |-> c, kind |-> CloseParen, hung |-> FALSE]
    ELSE IF first_char = 123 THEN [cursor |-> c, kind |-> OpenBrace, hung |-> FALSE]
    ELSE IF first_char = 125 THEN [cursor |-> c, kind |-> CloseBrace, hung |-> FALSE]
    ELSE [cursor |-> c, kind |-> Unknown, hung |-> FALSE]

\* The match of eat_token on the first codepoint, after it was consumed:
\* the arms are tried in order.
eat_token_kind(c, first_char) ==
    IF is_whitespace(first_char) THEN eat_whitespace(c)
    ELSE IF is_id_start(first_char) THEN eat_id_continue(c)
    ELSE IF first_char = 34
         THEN LET s == eat_double_quote_str(c) IN
              [cursor |-> s.cursor, kind |-> Literal(Str(s.terminated)),
               hung |-> FALSE]
    ELSE IF first_char = 59  THEN [cursor |-> c, kind |-> Semi, hung |-> FALSE]
    ELSE IF first_char = 40  THEN [cursor |-> c, kind |-> OpenParen, hung |-> FALSE]
    ELSE IF first_char = 41  THEN [cursor |-> c, kind |-> CloseParen, hung |-> FALSE]
    ELSE IF first_char = 123 THEN [cursor |-> c, kind |-> OpenBrace, hung |-> FALSE]
    ELSE IF first_char = 125 THEN [cursor |-> c, kind |-> CloseBrace, hung |-> FALSE]
    ELSE IF first_char = 33  THEN [cursor |-> c, kind |-> Exclam, hung |-> FALSE]
    ELSE [cursor |-> c, kind |-> Unknown, hung |-> FALSE]

\* eat_token that resets the baseline itself before scanning
eat_token_resetting(c) ==
    LET a == adv(reset_len_consumed(c)) IN
    IF ~a.ret.some
    THEN [cursor |-> a.cursor, panic |-> TRUE, hung |-> FALSE, token |-> None]
    ELSE LET k == eat_token_kind(a.cursor, a.ret.val) IN
         IF k.hung
         THEN [cursor |-> k.cursor, panic |-> FALSE, hung |-> TRUE, token |-> None]
         ELSE [cursor |-> k.cursor, panic |-> FALSE, hung |-> FALSE,
               token  |-> Some(Token_new(k.kind, len_consumed(k.cursor)))]

\* eat_token: the cursor afterwards, the token, whether the unwrap of the
\* first adv() panicked and whether the scan hangs (then there is no token).
eat_token(c) ==
    LET a == adv(c) IN
    IF ~a.ret.some
    THEN [cursor |-> a.cursor, panic |-> TRUE, hung |-> FALSE, token |-> None]
    ELSE LET k == eat_token_kind(a.cursor, a.ret.val) IN
         IF k.hung
         THEN [cursor |-> k.cursor, panic |-> FALSE, hung |-> TRUE, token |-> None]
         ELSE [cursor |-> k.cursor, panic |-> FALSE, hung |-> FALSE,
               token  |-> Some(Token_new(k.kind, len_consumed(k.cursor)))]

\* the closure without the reset of the baseline
tokenize_pull_without_reset(c) ==
    IF is_empty(c)
    THEN [cursor |-> c, panic |-> FALSE, hung |-> FALSE, token |-> None]
    ELSE eat_token(c)

\* the closure testing for the end by the sentinel and skipping it
tokenize_pull_skipping_sentinel(c) ==
    IF peek(c).ret = EOF_CHAR
    THEN [cursor |-> adv(c).cursor, panic |-> FALSE, hung |-> FALSE,
          token |-> None]
    ELSE eat_token(reset_len_consumed(c))

\* the closure without its emptiness check
tokenize_pull_unchecked(c) == eat_token(reset_len_consumed(c))

\* the closure giving up one codepoint before the end
tokenize_pull_early(c) ==
    IF Len(c.chars) <= 1
    THEN [cursor |-> c, panic |-> FALSE, hung |-> FALSE, token |-> None]
    ELSE eat_token(reset_len_consumed(c))

\* The closure tokenize hands to from_fn, one call of it: the cursor
\* afterwards and the Option<Token> it returns.
tokenize_pull(c) ==
    IF is_empty(c)
    THEN [cursor |-> c, panic |-> FALSE, hung |-> FALSE, token |-> None]
    ELSE eat_token(reset_len_consumed(c))

\* ------------------------------------------------------------------------
\* State
\* ------------------------------------------------------------------------

VARIABLES
    input,      \* the string handed to tokenize / Cursor::new
    impl,       \* which Cursor the run is about: "lexer" or "src"
    cursor,     \* the Cursor of src/lexer/cursor.rs
    cursor0,    \* the Cursor of src/cursor.rs
    tokens,     \* the tokens the iterator has yielded so far, in order
    spans,      \* spans[i]: codepoints of input consumed before / after token i
    op,         \* the latest operation
    pre,        \* the cursor the latest operation started from
    last,       \* what the latest operation returned; for adv_until the
                \* condition it was given and the codepoints that was applied to
    consumed,   \* codepoints consumed since the latest reset_len_consumed
    panicked,   \* an unwrap failed
    hung        \* a loop that never ends was entered

vars == <<input, impl, cursor, cursor0, tokens, spans, op, pre, last,
          consumed, panicked, hung>>

\* the strings over A of at most n codepoints
RECURSIVE Strings(_, _)
Strings(A, n) ==
    IF n = 0 THEN {<<>>}
    ELSE LET S == Strings(A, n - 1) IN
         S \cup {Append(s, a) : s \in {t \in S : Len(t) = n - 1}, a \in A}

\* codepoints of inp that a cursor with `chars` left has consumed
Position(inp, chars) == Len(inp) - Len(chars)

Running == ~panicked /\ ~hung

\* ------------------------------------------------------------------------
\* tokenize: the iterator returned by tokenize(input), one action per pull
\* ------------------------------------------------------------------------

Init ==
    /\ input \in Strings(Alphabet, MaxLen) \cup Strings(CoreAlphabet, MaxCoreLen)
    /\ impl = "lexer"
    /\ cursor = new(input)
    /\ cursor0 = src_new(<<>>)
    /\ tokens = <<>>
    /\ spans = <<>>
    /\ op = "new"
    /\ pre = cursor
    /\ last = None
    /\ consumed = 0
    /\ panicked = FALSE
    /\ hung = FALSE

\* one call of next() on the iterator
Pull ==
    /\ Running
    /\ LET r == tokenize_pull(cursor) IN
       /\ cursor' = r.cursor
       /\ panicked' = r.panic
       /\ hung' = r.hung
       /\ last' = r.token
       /\ tokens' = IF r.token.some THEN Append(tokens, r.token.val) ELSE tokens
       /\ spans' = IF r.token.some
                   THEN Append(spans, [from |-> Position(input, cursor.chars),
                                       to   |-> Position(input, r.cursor.chars)])
                   ELSE spans
       /\ consumed' = IF r.token.some
                      THEN Len(cursor.chars) - Len(r.cursor.chars)
                      ELSE consumed
    /\ op' = "pull"
    /\ pre' = cursor
    /\ UNCHANGED <<input, impl, cursor0>>

Next == Pull

Spec == Init /\ [][Next]_vars

\* ------------------------------------------------------------------------
\* A free-standing Cursor driven by any sequence of its operations
\* ------------------------------------------------------------------------

CursorInit ==
    /\ input \in Strings(CursorAlphabet, MaxCursorLen)
    /\ impl \in {"lexer", "src"}
    /\ cursor = new(IF impl = "lexer" THEN input ELSE <<>>)
    /\ cursor0 = src_new(IF impl = "src" THEN input ELSE <<>>)
    /\ tokens = <<>>
    /\ spans = <<>>
    /\ op = "new"
    /\ pre = IF impl = "lexer" THEN cursor ELSE cursor0
    /\ last = None
    /\ consumed = 0
    /\ panicked = FALSE
    /\ hung = FALSE

Adv ==
    /\ Running /\ impl = "lexer"
    /\ LET r == adv(cursor) IN
       /\ cursor' = r.cursor
       /\ last' = r.ret
       /\ consumed' = consumed + (Len(cursor.chars) - Len(r.cursor.chars))
    /\ op' = "adv"
    /\ pre' = cursor
    /\ UNCHANGED <<input, impl, cursor0, tokens, spans, panicked, hung>>

Peek ==
    /\ Running /\ impl = "lexer"
    /\ LET r == peek(cursor) IN
       /\ cursor' = r.cursor
       /\ last' = r.ret
       /\ consumed' = consumed + (Len(cursor.chars) - Len(r.cursor.chars))
    /\ op' = "peek"
    /\ pre' = cursor
    /\ UNCHANGED <<input, impl, cursor0, tokens, spans, panicked, hung>>

AdvUntil(p) ==
    /\ Running /\ impl = "lexer"
    /\ LET r == adv_until(cursor, p) IN
       /\ cursor' = r.cursor
       /\ last' = [cond |-> p, calls |-> r.calls]
       /\ hung' = r.hung
       /\ consumed' = consumed + (Len(cursor.chars) - Len(r.cursor.chars))
    /\ op' = "adv_until"
    /\ pre' = cursor
    /\ UNCHANGED <<input, impl, cursor0, tokens, spans, panicked>>

ResetLenConsumed ==
    /\ Running /\ impl = "lexer"
    /\ cursor' = reset_len_consumed(cursor)
    /\ last' = None
    /\ consumed' = 0
    /\ op' = "reset_len_consumed"
    /\ pre' = cursor
    /\ UNCHANGED <<input, impl, cursor0, tokens, spans, panicked, hung>>

EatToken ==
    /\ Running /\ impl = "lexer"
    /\ LET r == eat_token(cursor) IN
       /\ cursor' = r.cursor
       /\ panicked' = r.panic
       /\ hung' = r.hung
       /\ last' = r.token
       /\ consumed' = consumed + (Len(cursor.chars) - Len(r.cursor.chars))
    /\ op' = "eat_token"
    /\ pre' = cursor
    /\ UNCHANGED <<input, impl, cursor0, tokens, spans>>

SrcAdv ==
    /\ Running /\ impl = "src"
    /\ LET r == src_adv(cursor0) IN
       /\ cursor0' = r.cursor
       /\ last' = r.ret
       /\ consumed' = consumed + (Len(cursor0.chars) - Len(r.cursor.chars))
    /\ op' = "adv"
    /\ pre' = cursor0
    /\ UNCHANGED <<input, impl, cursor, tokens, spans, panicked, hung>>

SrcPeek ==
    /\ Running /\ impl = "src"
    /\ LET r == src_peek(cursor0) IN
       /\ cursor0' = r.cursor
       /\ last' = r.ret
       /\ consumed' = consumed + (Len(cursor0.chars) - Len(r.cursor.chars))
    /\ op' = "peek"
    /\ pre' = cursor0
    /\ UNCHANGED <<input, impl, cursor, tokens, spans, panicked, hung>>

SrcAdvUntil(p) ==
    /\ Running /\ impl = "src"
    /\ LET r == src_adv_until(cursor0, p) IN
       /\ cursor0' = r.cursor
       /\ last' = [cond |-> p, calls |-> r.calls]
       /\ hung' = r.hung
       /\ consumed' = consumed + (Len(cursor0.chars) - Len(r.cursor.chars))
    /\ op' = "adv_until"
    /\ pre' = cursor0
    /\ UNCHANGED <<input, impl, cursor, tokens, spans, panicked>>

CursorNext ==
    \/ Adv
    \/ Peek
    \/ \E p \in Conditions : AdvUntil(p)
    \/ ResetLenConsumed
    \/ EatToken
    \/ SrcAdv
    \/ SrcPeek
    \/ \E p \in Conditions : SrcAdvUntil(p)

CursorSpec == CursorInit /\ [][CursorNext]_vars

\* ------------------------------------------------------------------------
\* Properties of tokenize (specification Spec)
\* ------------------------------------------------------------------------

RECURSIVE SumLen(_)
SumLen(ts) == IF ts = <<>> THEN 0 ELSE Head(ts).len + SumLen(Tail(ts))

\* the iterator has returned None
Drained == op = "pull" /\ ~last.some /\ Running

\* the spans follow one another from the first codepoint on
Contiguous ==
    \A i \in 1..Len(spans) :
        /\ spans[i].from = (IF i = 1 THEN 0 ELSE spans[i - 1].to)
        /\ spans[i].from <= spans[i].to

\* the codepoint that starts token i
First(i) == input[spans[i].from + 1]

\* C1: once the iterator is drained, the len fields of the tokens add up to
\* the number of codepoints of the input, and the tokens cover the input
\* left to right with no gap and no overlap.
C1_LenSumIsCodepointCount ==
    Drained =>
        /\ SumLen(tokens) = Len(input)
        /\ Contiguous
        /\ (IF spans = <<>> THEN 0 ELSE spans[Len(spans)].to) = Len(input)

\* C2: every pull returns; it returns None exactly when the cursor reports
\* is_empty(); every token consumes at least one codepoint, so there are at
\* most as many tokens as codepoints and only finitely many pulls return a
\* token; the empty input yields no token.
C2_FiniteSequence ==
    /\ Running
    /\ op = "pull" => (~last.some <=> is_empty(pre))
    /\ \A i \in 1..Len(spans) : spans[i].to > spans[i].from
    /\ Len(tokens) <= Len(input)
    /\ Drained => cursor.chars = <<>>
    /\ input = <<>> => tokens = <<>>

C2_Witness ==
    /\ Drained
    /\ Len(input) = 3
    /\ Len(tokens) = 3

\* C3: the driver calls eat_token only when a codepoint remains, so the
\* unwrap of the first adv() never fails.
C3_EatTokenNeverOnEmpty ==
    /\ ~panicked
    /\ (op = "pull" /\ pre.chars = <<>>) => (~last.some /\ cursor = pre)
    /\ (op = "pull" /\ last.some) => adv(reset_len_consumed(pre)).ret.some

C3_Witness ==
    /\ op = "pull"
    /\ last.some
    /\ cursor.chars = <<>>
    /\ Len(tokens) = 2

\* C4: maximal munch.  A Whitespace token is whitespace throughout and the
\* codepoint after it, if any, is not whitespace; an Identifier token is an
\* identifier-start codepoint followed by identifier-continue codepoints and
\* the codepoint after it, if any, is not identifier-continue.
C4_MaximalMunch ==
    \A i \in 1..Len(tokens) :
        /\ tokens[i].kind = Whitespace =>
              /\ \A j \in (spans[i].from + 1)..spans[i].to : is_whitespace(input[j])
              /\ spans[i].to < Len(input) => ~is_whitespace(input[spans[i].to + 1])
        /\ tokens[i].kind = Identifier =>
              /\ is_id_start(First(i))
              /\ \A j \in (spans[i].from + 2)..spans[i].to : is_id_continue(input[j])
              /\ spans[i].to < Len(input) => ~is_id_continue(input[spans[i].to + 1])

\* a two-codepoint identifier stopped by a space, then a whitespace run
\* stopped by the end of the input
C4_Witness ==
    /\ Len(tokens) = 2
    /\ tokens[1].kind = Identifier /\ spans[1].to = 2
    /\ input[2] = 233
    /\ tokens[2].kind = Whitespace /\ spans[2].to = 4

\* the positions after `from + 1` where the input has a double quote
LaterQuotes(i) == {j \in (spans[i].from + 2)..Len(input) : input[j] = 34}

Min(S) == CHOOSE m \in S : \A n \in S : m <= n

\* C5: a token that starts with a double quote is Literal{Str{terminated:
\* true}} iff a later double quote exists, and then it ends right after the
\* first one, whatever precedes that quote; otherwise it takes the rest of
\* the input and is Literal{Str{terminated: false}}.
C5_StringLiteral ==
    \A i \in 1..Len(tokens) :
        First(i) = 34 =>
            IF LaterQuotes(i) # {}
            THEN /\ tokens[i].kind = Literal(Str(TRUE))
                 /\ spans[i].to = Min(LaterQuotes(i))
            ELSE /\ tokens[i].kind = Literal(Str(FALSE))
                 /\ spans[i].to = Len(input)

\* a literal closed by a quote that follows a backslash, with input after it
C5_Witness ==
    /\ Len(tokens) >= 1
    /\ tokens[1].kind = Literal(Str(TRUE))
    /\ Len(input) = 4
    /\ input[2] = 92 /\ input[3] = 34
    /\ spans[1].to = 3

\* the kind tag the first codepoint of a token calls for
KindTagFor(c) ==
    CASE is_whitespace(c) -> "Whitespace"
      [] is_id_start(c)   -> "Identifier"
      [] c = 34           -> "Literal"
      [] c = 59           -> "Semi"
      [] c = 40           -> "OpenParen"
      [] c = 41           -> "CloseParen"
      [] c = 123          -> "OpenBrace"
      [] c = 125          -> "CloseBrace"
      [] c = 33           -> "Exclam"
      [] OTHER            -> "Unknown"

\* how many of the dispatch classes hold of c
ClassCount(c) ==
    Cardinality({k \in 1..4 :
        \/ k = 1 /\ is_whitespace(c)
        \/ k = 2 /\ is_id_start(c)
        \/ k = 3 /\ c = 34
        \/ k = 4 /\ c \in {59, 40, 41, 123, 125, 33}})

\* C6: the kind of a token is decided by its first codepoint alone, at most
\* one class holds of that codepoint, and a punctuation or Unknown token
\* consumes nothing beyond it.
C6_FirstCodepointDispatch ==
    \A i \in 1..Len(tokens) :
        /\ tokens[i].kind.tag = KindTagFor(First(i))
        /\ ClassCount(First(i)) <= 1
        /\ (ClassCount(First(i)) = 0) <=> (tokens[i].kind = Unknown)
        /\ tokens[i].kind \in {Semi, OpenParen, CloseParen, OpenBrace,
                               CloseBrace, Exclam, Unknown}
              => spans[i].to = spans[i].from + 1

C6_Witness ==
    /\ Len(tokens) = 3
    /\ tokens[1].kind = Exclam
    /\ tokens[2].kind = Unknown
    /\ tokens[3].kind = CloseBrace

\* C7: every Unknown token has len 1.
C7_UnknownLenOne ==
    \A i \in 1..Len(tokens) : tokens[i].kind = Unknown => tokens[i].len = 1

\* ------------------------------------------------------------------------
\* Properties of the Cursor (specification CursorSpec)
\* ------------------------------------------------------------------------

\* C8: len_consumed is the number of codepoints consumed since the latest
\* reset_len_consumed (or since new), and the len of a token eat_token
\* returns is the number of codepoints that scan consumed.
C8_LenConsumedCountsCodepoints ==
    (impl = "lexer" /\ Running) =>
        /\ len_consumed(cursor) = consumed
        /\ (op = "eat_token" /\ pre.initial_len = ByteLen(pre.chars))
              => last.val.len = Len(pre.chars) - Len(cursor.chars)

\* C9: is_empty() is true iff no codepoint remains, that is iff the next
\* adv() would return None, for the Cursor of either file.
C9_IsEmptyIffNothingLeft ==
    /\ impl = "lexer" => (is_empty(cursor) <=> ~adv(cursor).ret.some)
    /\ impl = "src" => (src_is_empty(cursor0) <=> ~src_adv(cursor0).ret.some)

\* C10: peek leaves the cursor as it was and returns the next codepoint, or
\* NUL when none is left, without failing, for the Cursor of either file.
C10_PeekIsPure ==
    op = "peek" =>
        /\ Running
        /\ (IF impl = "lexer" THEN cursor ELSE cursor0) = pre
        /\ last = (IF pre.chars # <<>> THEN Head(pre.chars) ELSE 0)

C10_Witness ==
    /\ op = "peek"
    /\ impl = "lexer"
    /\ Len(input) = 2
    /\ cursor.chars = <<>>
    /\ cursor.prev = 233
    /\ last = 0

\* the cursor the run is about
Cur == IF impl = "lexer" THEN cursor ELSE cursor0

\* what adv() would return now
NextAdv == IF impl = "lexer" THEN adv(cursor).ret ELSE src_adv(cursor0).ret

\* codepoints the latest operation consumed
Taken == Len(pre.chars) - Len(Cur.chars)

\* C11: adv() returns the next codepoint of the input, consumes exactly that
\* one and records it in prev, leaving the baseline alone; with nothing left
\* it returns None and leaves the cursor as it was.  Either file.
C11_AdvOneAtATime ==
    op = "adv" =>
        IF pre.chars # <<>>
        THEN /\ last = Some(Head(pre.chars))
             /\ last.val = input[Position(input, pre.chars) + 1]
             /\ Cur.chars = Tail(pre.chars)
             /\ Cur.prev = last.val
             /\ impl = "lexer" => Cur.initial_len = pre.initial_len
        ELSE /\ last = None
             /\ Cur = pre

\* the second adv() after the end of a two-codepoint input
C11_Witness ==
    /\ op = "adv"
    /\ impl = "lexer"
    /\ Len(input) = 2
    /\ pre.chars = <<>>
    /\ last = None
    /\ cursor.prev = 233
    /\ consumed = 2

\* C12 as claimed: adv_until applies its condition only while a codepoint
\* remains, so never to the sentinel.  The j-th application happens with
\* Len(pre.chars) - (j - 1) codepoints left.
C12_ConditionNeverOnEmpty ==
    op = "adv_until" => Len(last.calls) <= Len(pre.chars)

\* is_empty() of the cursor the run is about
EmptyNow == IF impl = "lexer" THEN is_empty(cursor) ELSE src_is_empty(cursor0)

\* C12 as amended: adv_until evaluates condition(self.peek()) before
\* !self.is_empty().  Every codepoint consumed satisfied the condition.  A
\* call that returns has applied the condition to each codepoint consumed,
\* in order, and then once to what peek() returned next: the next codepoint
\* or, when the scan reached the end of the input, the sentinel NUL; it
\* returned because the condition was false of that value or is_empty() was
\* true.  With the Cursor of src/lexer/cursor.rs every call returns and the
\* cursor is_empty() after an application to the sentinel.  A call that
\* never returns is one on the Cursor of src/cursor.rs that has consumed
\* all the input, with the condition true of the sentinel and is_empty()
\* false: the condition is then applied to the sentinel without end.
C12_ConditionBeforeEmptiness ==
    op = "adv_until" =>
        /\ \A j \in 1..Taken : Cond(last.cond, pre.chars[j])
        /\ ~hung =>
              /\ Len(last.calls) = Taken + 1
              /\ \A j \in 1..Len(last.calls) :
                    last.calls[j] = (IF j <= Len(pre.chars) THEN pre.chars[j]
                                                            ELSE EOF_CHAR)
              /\ ~Cond(last.cond, last.calls[Len(last.calls)]) \/ EmptyNow
              /\ Cur.chars = <<>> => last.calls[Len(last.calls)] = EOF_CHAR
              /\ (impl = "lexer" /\ Cur.chars = <<>>) => EmptyNow
        /\ hung =>
              /\ impl = "src"
              /\ Taken = Len(pre.chars)
              /\ Cur.chars = <<>>
              /\ Cond(last.cond, EOF_CHAR)
              /\ ~EmptyNow

\* a scan that ran to the end: the fourth application is to the sentinel
C12_Witness ==
    /\ op = "adv_until"
    /\ impl = "lexer"
    /\ ~hung
    /\ last.cond = "always"
    /\ Len(pre.chars) = 3
    /\ cursor.chars = <<>>
    /\ Len(last.calls) = 4
    /\ last.calls[4] = EOF_CHAR

\* C13: adv_until returns for every input and condition, after at most as
\* many consuming steps as codepoints were left, and with nothing left when
\* the condition holds of all of them.  Either file.
C13_AdvUntilTerminates ==
    op = "adv_until" =>
        /\ ~hung
        /\ Taken <= Len(pre.chars)
        /\ (\A j \in 1..Len(pre.chars) : Cond(last.cond, pre.chars[j]))
              => Cur.chars = <<>>

\* the places of the codepoints left before the call that fail the condition
Failing == {j \in 1..Len(pre.chars) : ~Cond(last.cond, pre.chars[j])}

\* C14: when adv_until(p) has returned, the longest prefix of codepoints
\* satisfying p is consumed and nothing more: the next adv() returns the
\* first codepoint that fails p, or None when no codepoint fails p.
C14_LongestPrefix ==
    (op = "adv_until" /\ ~hung) =>
        IF Failing # {}
        THEN /\ Cur.chars = SubSeq(pre.chars, Min(Failing), Len(pre.chars))
             /\ NextAdv = Some(pre.chars[Min(Failing)])
        ELSE /\ Cur.chars = <<>>
             /\ NextAdv = None
             /\ impl = "lexer" => is_empty(cursor)

\* the unit test: advance over the non-digits, the next adv() gives '9'
C14_Witness ==
    /\ op = "adv_until"
    /\ impl = "lexer"
    /\ last.cond = "condition_notdigit"
    /\ pre.chars = input
    /\ Len(input) = 3
    /\ input[1] = 233
    /\ cursor.chars = <<57>>

\* C15: a pull is one reset_len_consumed followed by one eat_token and
\* nothing else; a pull that returns None leaves the cursor alone.  After k
\* tokens the cursor stands right after the k-th, its offset in the input
\* (in the bytes len_consumed counts in) being the sum of their lens, and
\* token k + 1 starts there.
C15_DemandDriven ==
    /\ ByteLen(input) - ByteLen(cursor.chars) = SumLen(tokens)
    /\ Contiguous
    /\ Position(input, cursor.chars)
          = (IF spans = <<>> THEN 0 ELSE spans[Len(spans)].to)
    /\ (op = "pull" /\ last.some) =>
          LET e == eat_token(reset_len_consumed(pre)) IN
          /\ cursor = e.cursor
          /\ last = e.token
          /\ cursor.initial_len = ByteLen(pre.chars)
    /\ (op = "pull" /\ ~last.some) => cursor = pre

\* two tokens pulled, the first a two-byte letter, and input still left
C15_Witness ==
    /\ op = "pull"
    /\ Len(tokens) = 2
    /\ input[1] = 233
    /\ tokens[1].len = 2
    /\ Len(cursor.chars) = 2

\* C16: NUL is in none of the classes; a whitespace or identifier scan that
\* reaches the end of the input stops there with its condition false on the
\* sentinel; a token that starts with NUL is Unknown.
C16_SentinelInNoClass ==
    /\ ClassCount(EOF_CHAR) = 0
    /\ ~is_id_continue(EOF_CHAR)
    /\ (/\ op = "adv_until"
        /\ last.cond \in {"is_whitespace", "is_id_continue"}
        /\ Cur.chars = <<>>)
          => /\ ~hung
             /\ last.calls[Len(last.calls)] = EOF_CHAR
             /\ ~Cond(last.cond, EOF_CHAR)
    /\ (op = "eat_token" /\ pre.chars # <<>> /\ Head(pre.chars) = 0)
          => /\ last.some
             /\ last.val.kind = Unknown
             /\ cursor.chars = Tail(pre.chars)

\* eat_token on a NUL that is followed by a space
C16_Witness ==
    /\ op = "eat_token"
    /\ pre.chars = <<0, 32>>
    /\ last.some
    /\ last.val.kind = Unknown
    /\ cursor.chars = <<32>>

\* bytes of the input consumed since the latest reset_len_consumed
BytesSinceReset ==
    LET pos == Position(input, cursor.chars) IN
    ByteLen(SubSeq(input, pos - consumed + 1, pos))

\* C17: eat_token leaves the baseline alone: the len it returns covers all
\* that was consumed since the latest reset, earlier scans included, and
\* covers its own scan alone when the baseline was reset just before.
C17_EatTokenKeepsBaseline ==
    (impl = "lexer" /\ op = "eat_token" /\ last.some) =>
        /\ cursor.initial_len = pre.initial_len
        /\ last.val.len = BytesSinceReset
        /\ last.val.len = len_consumed(pre)
                            + (ByteLen(pre.chars) - ByteLen(cursor.chars))
        /\ len_consumed(pre) = 0
              => last.val.len = ByteLen(pre.chars) - ByteLen(cursor.chars)

\* a scan of one codepoint returning len 3 after two codepoints of
\* earlier scanning with no reset in between
C17_Witness ==
    /\ impl = "lexer"
    /\ op = "eat_token"
    /\ last.some
    /\ input = <<34, 34, 32>>
    /\ pre.chars = <<32>>
    /\ pre.initial_len = 3
    /\ last.val = Token_new(Whitespace, 3)

\* C18: an unterminated string literal is the last token: the cursor is
\* empty after it and the next pull returns None, so there is at most one.
C18_UnterminatedIsLast ==
    /\ \A i \in 1..Len(tokens) :
          tokens[i].kind = Literal(Str(FALSE)) =>
              /\ i = Len(tokens)
              /\ cursor.chars = <<>>
              /\ is_empty(cursor)
              /\ ~tokenize_pull(cursor).token.some
    /\ Cardinality({i \in 1..Len(tokens) :
                        tokens[i].kind = Literal(Str(FALSE))}) <= 1

C18_Witness ==
    /\ Drained
    /\ Len(tokens) = 2
    /\ tokens[2].kind = Literal(Str(FALSE))
    /\ spans[2].to - spans[2].from = 3
    /\ input[4] = 32

\* C19: the baseline is never below the remaining length, so the
\* subtraction in len_consumed does not underflow.
C19_BaselineNotBelowRemaining ==
    impl = "lexer" =>
        /\ cursor.initial_len >= ByteLen(cursor.chars)
        /\ len_consumed(cursor) >= 0

\* a cursor that was reset part way and has advanced since
C19_Witness ==
    /\ impl = "lexer"
    /\ op = "adv_until"
    /\ cursor.initial_len < ByteLen(input)
    /\ cursor.initial_len > ByteLen(cursor.chars)
    /\ cursor.chars # <<>>

\* C20: once a pull has returned None, a further pull returns None and
\* changes neither the cursor nor the tokens yielded.
C20_ExhaustionIsStable ==
    [][Drained => (/\ last' = None
                   /\ cursor' = cursor
                   /\ tokens' = tokens)]_vars

C20_Witness ==
    /\ Drained
    /\ pre = cursor
    /\ Len(tokens) = 3
    /\ input[3] = 0

====
